---- MODULE Spec2Model ----
(***************************************************************************)
(* Vulkan backend of the libmpv render API (video/out/vulkan/libmpv_vk.c). *)
(*                                                                         *)
(* One libmpv_gpu_context and its struct priv, driven by a single caller   *)
(* thread through init, wrap_fbo, done_frame and destroy, together with    *)
(* the GPU whose queue executes the submitted commands asynchronously.     *)
(* Pointers are "NULL" or the name of the object they refer to; `live` is  *)
(* the set of library objects that exist, so a non-NULL pointer whose      *)
(* object is not in `live` is dangling.                                    *)
(***************************************************************************)
EXTENDS Integers, FiniteSets, Sequences, TLC

\* ------------------------------------------------------------------ bounds
MaxSemVal    == 1   \* semaphore values range 1..MaxSemVal
MaxWrapCalls == 2   \* wrap_fbo calls per context
MaxCmdsPerFrame == 2 \* GPU commands the renderer submits for one frame
MaxDestroy   == 2   \* destroy calls per context

\* --------------------------------------------------------------- constants
NULL == "NULL"

\* mpv_error values returned by the backend (libmpv_vk.c:46,58,81,102)
MPV_OK                      == "OK"
MPV_ERROR_INVALID_PARAMETER == "INVALID_PARAMETER"
MPV_ERROR_UNSUPPORTED       == "UNSUPPORTED"
MPV_ERROR_GENERIC           == "GENERIC"

\* Owned sub-objects of struct priv (libmpv_vk.c:30-36): the libplacebo log,
\* the imported pl_vulkan (which owns the pl_gpu) and the ra.
Objects == {"log", "vk", "ra"}

\* The handles the caller owns and lends to the context: the four of
\* mpv_vulkan_init_params (render_vk.h:82-98) and the image of mpv_vulkan_fbo.
CallerHandles ==
    {"instance", "physical_device", "device", "graphics_queue", "image"}

\* VkImageLayout values a caller may declare in mpv_vulkan_fbo
UserLayouts == {"UNDEFINED", "PRESENT_SRC_KHR"}
\* Layouts the wrapped image can be left in by rendering, from the usage the
\* wrap declares (COLOR_ATTACHMENT | TRANSFER_DST)
RenderLayouts == {"COLOR_ATTACHMENT_OPTIMAL", "TRANSFER_DST_OPTIMAL"}

\* ------------------------------------------------------------------- state
VARIABLES
    ctx_priv,     \* ctx->priv: NULL or "priv"
    pllog,        \* p->pllog
    vulkan,       \* p->vulkan
    gpu,          \* p->gpu (the pl_gpu owned by the "vk" object)
    ra_ctx,       \* p->ra_ctx: NULL or "ra_ctx"
    ra,           \* p->ra_ctx->ra
    ctx_ra_ctx,   \* ctx->ra_ctx, the handle published to the renderer
    proxy_tex,    \* p->proxy_tex: 0 (zeroed) or the pl_tex it wraps
    initpc,       \* "none" before init is called, "returned" after
    initRet,      \* init's return value
    vk_params,    \* the MPV_RENDER_PARAM_VULKAN_INIT_PARAMS block init was given
    live,         \* library objects that currently exist
    built,        \* built[o]: how many times o was constructed
    tried,        \* the constructions init attempted, in order
    relOrder,     \* the objects destroy released, in the order of release
    nDestroy,     \* destroy calls so far
    fault,        \* "no", or the call in which the process crashed
    deadUse,      \* a call operated on a NULL or destroyed pl_gpu
    fbo,          \* the MPV_RENDER_PARAM_VULKAN_FBO block of the last wrap_fbo
    sync,         \* the MPV_RENDER_PARAM_VULKAN_SYNC block of the last wrap_fbo
    wrapEnv,      \* what pl_vulkan_wrap / mppl_wrap_tex did in the last wrap_fbo
    wrapRet,      \* wrap_fbo's return value
    out,          \* *out of the last wrap_fbo: "unset" or "proxy_tex"
    nWrap,        \* wrap_fbo calls so far
    pltexLive,    \* live pl_tex objects created by pl_vulkan_wrap
    nextTex,      \* pl_tex objects created so far
    texLayout,    \* layout of the frame's image as tracked for the wrapped tex
    framepc,      \* "idle", "bound", "rendered", "finishing", "done"
    submitted,    \* GPU commands submitted to the queue
    completed,    \* GPU commands retired (the completion counter)
    frameBase,    \* value of `submitted` when the current frame was bound
    waitSemVal,   \* counter of the caller's wait semaphore
    sigSemVal,    \* counter of the caller's signal semaphore
    callerOwned   \* the caller's Vulkan handles that have not been destroyed

progVars_noproxy == <<ctx_priv, pllog, vulkan, gpu, ra_ctx, ra, ctx_ra_ctx>>
progVars  == <<progVars_noproxy, proxy_tex>>
initVars  == <<initpc, initRet, vk_params>>
objVars   == <<live, built, tried, relOrder>>
frameVars == <<fbo, sync, wrapEnv, wrapRet, out, nWrap, pltexLive, nextTex,
               texLayout, framepc, frameBase>>
gpuVars   == <<submitted, completed>>
semVars   == <<waitSemVal, sigSemVal>>
vars == <<progVars, initVars, objVars, nDestroy, fault, deadUse, frameVars,
          gpuVars, semVars, callerOwned>>

\* The caller thread can make its next call: the process has not crashed, and
\* no call has used a NULL or destroyed pl_gpu (what the program does after
\* such a use is undefined and is not followed further).
Running == fault = "no" /\ ~deadUse

\* ------------------------------------------------------------------ inputs
\* mpv_vulkan_init_params (render_vk.h:78-124): the four mandatory handles,
\* TRUE when non-null; `present` is FALSE when the parameter is not in the list.
NoInitParams == [present |-> FALSE, instance |-> FALSE, physical_device |-> FALSE,
                 device |-> FALSE, graphics_queue |-> FALSE]
InitParamBlocks ==
    {NoInitParams} \cup
    [present : {TRUE}, instance : BOOLEAN, physical_device : BOOLEAN,
     device : BOOLEAN, graphics_queue : BOOLEAN]

\* -------------------------------------------------------------------- init
\* libmpv_vk.c:48-49
HandlesMissingNoQueue(vp) ==
    ~vp.instance \/ ~vp.physical_device \/ ~vp.device

HandlesMissing(vp) ==
    ~vp.instance \/ ~vp.physical_device \/ ~vp.device \/ ~vp.graphics_queue

\* libmpv_vk.c:96
RaCreateFailedInverted(r) == r # NULL

RaCreateFailed(r) == r = NULL

\* libmpv_vk.c:56
LogCreateFailedIgnored(l) == FALSE

LogCreateFailed(l) == l = NULL

\* libmpv_vk.c:79
ImportFailed(v) == v = NULL

\* libmpv_vk.c:81
ImportFailedRetGeneric == MPV_ERROR_GENERIC

ImportFailedRet == MPV_ERROR_UNSUPPORTED

\* libmpv_vk.c:101
PublishRaCtxForgotten(rc) == NULL

PublishRaCtx(rc) == rc

\* Construction of one sub-object: it exists from now on.
Construct(o, lv, bt) ==
    [live |-> lv \cup {o}, built |-> [bt EXCEPT ![o] = @ + 1]]

\* A constructor call that returned ptr: a new object, or NULL and nothing.
ConstructIf(ptr, c) ==
    IF ptr = NULL THEN c ELSE Construct(ptr, c.live, c.built)

\* init (libmpv_vk.c:38-103). logOk, importOk, raOk are what mppl_log_create,
\* pl_vulkan_import and ra_create_pl return (non-NULL or NULL).
init(vp, logOk, importOk, raOk) ==
    LET l  == IF logOk THEN "log" ELSE NULL
        v  == IF importOk THEN "vk" ELSE NULL
        r  == IF raOk THEN "ra" ELSE NULL
        c1 == ConstructIf(l, [live |-> live, built |-> built])
        c2 == ConstructIf(v, c1)
        c3 == ConstructIf(r, c2)
    IN
    /\ Running
    /\ initpc = "none"
    /\ nDestroy = 0             \* destroy ends the context's life
    /\ initpc' = "returned"
    /\ vk_params' = vp
    /\ ctx_priv' = "priv"                                  \* :40 talloc_zero
    /\ proxy_tex' = 0
    /\ IF ~vp.present THEN                                 \* :45
            /\ initRet' = MPV_ERROR_INVALID_PARAMETER
            /\ UNCHANGED <<pllog, vulkan, gpu, ra_ctx, ra, ctx_ra_ctx, live,
                           built, tried, fault>>
       ELSE IF HandlesMissing(vp) THEN                     \* :48
            /\ initRet' = MPV_ERROR_INVALID_PARAMETER
            /\ UNCHANGED <<pllog, vulkan, gpu, ra_ctx, ra, ctx_ra_ctx, live,
                           built, tried, fault>>
       ELSE IF LogCreateFailed(l) THEN                     \* :55-59
            /\ pllog' = l
            /\ tried' = <<"log">>
            /\ live' = c1.live
            /\ built' = c1.built
            /\ initRet' = MPV_ERROR_GENERIC
            /\ UNCHANGED <<vulkan, gpu, ra_ctx, ra, ctx_ra_ctx, fault>>
       ELSE IF ImportFailed(v) THEN                        \* :78-82
            /\ pllog' = l
            /\ vulkan' = v
            /\ tried' = <<"log", "vk">>
            /\ live' = c2.live
            /\ built' = c2.built
            /\ initRet' = ImportFailedRet
            /\ UNCHANGED <<gpu, ra_ctx, ra, ctx_ra_ctx, fault>>
       ELSE IF v = NULL THEN                               \* :84 on a NULL p->vulkan
            /\ pllog' = l
            /\ vulkan' = v
            /\ tried' = <<"log", "vk">>
            /\ live' = c2.live
            /\ built' = c2.built
            /\ initRet' = "none"
            /\ fault' = "init"
            /\ UNCHANGED <<gpu, ra_ctx, ra, ctx_ra_ctx>>
       ELSE /\ pllog' = l
            /\ vulkan' = v
            /\ gpu' = v                                    \* :84
            /\ ra_ctx' = "ra_ctx"                          \* :87
            /\ ra' = r                                     \* :95
            /\ tried' = <<"log", "vk", "ra">>
            /\ live' = c3.live
            /\ built' = c3.built
            /\ UNCHANGED fault
            /\ IF RaCreateFailed(r) THEN                   \* :96-99
                    /\ initRet' = MPV_ERROR_UNSUPPORTED
                    /\ UNCHANGED ctx_ra_ctx
               ELSE /\ ctx_ra_ctx' = PublishRaCtx("ra_ctx") \* :101
                    /\ initRet' = MPV_OK                   \* :102
    /\ UNCHANGED <<relOrder, nDestroy, deadUse, frameVars, gpuVars, semVars,
                   callerOwned>>

\* ----------------------------------------------------------------- destroy
\* How many times destroy released o.
Released(o) == Cardinality({i \in DOMAIN relOrder : relOrder[i] = o})

\* libmpv_vk.c:169
DestroyRaGuardNoRaCheck(rc, r) == rc # NULL

DestroyRaGuard(rc, r) == rc # NULL /\ r # NULL

\* libmpv_vk.c:171
RaAfterDestroyKept(r) == r

RaAfterDestroy(r) == NULL

\* libmpv_vk.c:174
DestroyVulkanGuardNever(v) == FALSE

DestroyVulkanGuard(v) == v # NULL

\* libmpv_vk.c:178: pl_log_destroy(&p->pllog) does nothing on a NULL log
DestroyLogGuard(l) == l # NULL

\* libmpv_vk.c:169-178: the order of the release calls that are made
ReleaseOrderVulkanFirst(relRa, relVk, relLog) ==
    (IF relVk THEN <<vulkan>> ELSE <<>>) \o
    (IF relRa THEN <<ra>> ELSE <<>>) \o
    (IF relLog THEN <<pllog>> ELSE <<>>)

ReleaseOrder(relRa, relVk, relLog) ==
    (IF relRa THEN <<ra>> ELSE <<>>) \o
    (IF relVk THEN <<vulkan>> ELSE <<>>) \o
    (IF relLog THEN <<pllog>> ELSE <<>>)

\* libmpv_vk.c:163-179: destroy makes no call that destroys a handle of the
\* caller (the pl_vulkan was imported, :78, so pl_vulkan_destroy leaves the
\* instance and the device alone).
CallerHandlesFreedWithDevice == {"device", "graphics_queue"}

CallerHandlesFreedByDestroy == {}

\* destroy (libmpv_vk.c:163-179). The releases happen in the order ra, vulkan,
\* log; pl_vulkan_destroy and pl_log_destroy set the pointer they are given to
\* NULL. Releasing an object that no longer exists is a double free.
destroy ==
    /\ Running
    /\ framepc \in {"idle", "done"}
    /\ nDestroy < MaxDestroy
    /\ nDestroy' = nDestroy + 1
    /\ IF ctx_priv = NULL THEN                             \* :166
            UNCHANGED <<progVars, objVars, fault, callerOwned>>
       ELSE LET relRa  == DestroyRaGuard(ra_ctx, ra)
                relVk  == DestroyVulkanGuard(vulkan)
                relLog == DestroyLogGuard(pllog)
                order  == ReleaseOrder(relRa, relVk, relLog)
                gone   == {order[i] : i \in DOMAIN order}
            IN  /\ relOrder' = relOrder \o order
                /\ live' = live \ gone
                /\ fault' = IF gone \ live # {} THEN "destroy" ELSE "no"
                /\ ra' = IF relRa THEN RaAfterDestroy(ra) ELSE ra   \* :171
                /\ vulkan' = NULL                          \* :175
                /\ pllog' = NULL                           \* :178
                /\ callerOwned' = callerOwned \ CallerHandlesFreedByDestroy
                /\ UNCHANGED <<ctx_priv, gpu, ra_ctx, ctx_ra_ctx, proxy_tex, built,
                               tried>>
    /\ UNCHANGED <<initVars, deadUse, frameVars, gpuVars, semVars>>

\* ------------------------------------------------------------ frame inputs
\* Widths and heights a caller passes: zero and a positive size.
Dims == {0, 16}

\* mpv_vulkan_fbo (render_vk.h:129-164): image is 0 for VK_NULL_HANDLE.
NoFbo == [present |-> FALSE, image |-> 0, width |-> 0, height |-> 0,
          current_layout |-> "UNDEFINED", target_layout |-> "UNDEFINED"]
FboBlocks ==
    {NoFbo} \cup
    [present : {TRUE}, image : {0, 1}, width : Dims, height : Dims,
     current_layout : UserLayouts, target_layout : UserLayouts]

\* mpv_vulkan_sync (render_vk.h:170-196): a semaphore is FALSE for
\* VK_NULL_HANDLE; a binary semaphore is the counter with the value 1.
NoSync == [present |-> FALSE, wait_semaphore |-> FALSE, wait_value |-> 0,
           signal_semaphore |-> FALSE, signal_value |-> 0]
SyncBlocks ==
    {NoSync} \cup
    {[present |-> TRUE, wait_semaphore |-> w > 0, wait_value |-> w,
      signal_semaphore |-> s > 0, signal_value |-> s] :
        w \in 0..MaxSemVal, s \in 0..MaxSemVal}

\* What a call does when it uses a pl_gpu whose pl_vulkan was destroyed.
DanglingOutcomes == {"crash", "fails", "works"}

\* ---------------------------------------------------------------- wrap_fbo
\* Neither pl_vulkan_wrap nor mppl_wrap_tex was reached.
NotCalled == [wrap |-> "notcalled", raWrap |-> "notcalled"]

\* libmpv_vk.c:115
FboInvalidNoHeight(f) == f.image = 0 \/ f.width = 0

FboInvalid(f) == f.image = 0 \/ f.width = 0 \/ f.height = 0

\* libmpv_vk.c:131
WrapFailedInverted(t) == t # 0

WrapFailed(t) == t = 0

\* What a collaborator's call did, as recorded in wrapEnv.
Outcome(ok) == IF ok THEN "ok" ELSE "failed"

\* The result of pl_vulkan_wrap (libmpv_vk.c:130): a new pl_tex, or 0 for NULL.
NewTex(ok) == IF ok THEN nextTex + 1 ELSE 0

\* libmpv_vk.c:147: pl_tex_destroy(p->gpu, &pltex)
TexDestroyForgotten(texs, t) == texs

TexDestroy(texs, t) == texs \ {t}

\* wrap_fbo from pl_vulkan_wrap's return on (libmpv_vk.c:130-152): t is what
\* pl_vulkan_wrap returned, raWrapOk whether mppl_wrap_tex succeeds and
\* slotWritten whether a failing mppl_wrap_tex has already written the slot.
WrapTail(f, s, t, raWrapOk, slotWritten) ==
    IF WrapFailed(t) THEN                                  \* :131-134
        /\ wrapRet' = MPV_ERROR_GENERIC
        /\ wrapEnv' = [wrap |-> Outcome(t # 0), raWrap |-> "notcalled"]
        /\ out' = "unset"
        /\ framepc' = "idle"
        /\ sync' = NoSync
        /\ UNCHANGED <<proxy_tex, pltexLive, nextTex, texLayout, frameBase>>
    ELSE
        /\ nextTex' = t
        /\ texLayout' = f.current_layout                   \* :138-143
        /\ IF ~raWrapOk THEN                               \* :146-149
                /\ wrapEnv' = [wrap |-> Outcome(t # 0), raWrap |-> "failed"]
                /\ pltexLive' = TexDestroy(pltexLive \cup {t}, t)   \* :130, :147
                /\ proxy_tex' = IF slotWritten THEN t ELSE proxy_tex
                /\ wrapRet' = MPV_ERROR_GENERIC
                /\ out' = "unset"
                /\ framepc' = "idle"
                /\ sync' = NoSync
                /\ UNCHANGED frameBase
           ELSE /\ wrapEnv' = [wrap |-> Outcome(t # 0), raWrap |-> "ok"]
                /\ pltexLive' = pltexLive \cup {t}
                /\ proxy_tex' = t
                /\ out' = "proxy_tex"                      \* :151
                /\ wrapRet' = MPV_OK                       \* :152
                /\ framepc' = "bound"
                /\ sync' = s
                /\ frameBase' = submitted

\* wrap_fbo (libmpv_vk.c:105-153). The parameter list carries the FBO block f
\* and the SYNC block s; wrap_fbo reads only the FBO block.
wrap_fbo ==
    /\ Running
    /\ initpc = "returned"
    /\ framepc \in {"idle", "done"}
    /\ nWrap < MaxWrapCalls
    /\ nWrap' = nWrap + 1
    /\ \E f \in FboBlocks :
        /\ fbo' = f
        /\ IF ~f.present \/ FboInvalid(f) THEN             \* :112, :115
                /\ wrapRet' = MPV_ERROR_INVALID_PARAMETER
                /\ wrapEnv' = NotCalled
                /\ out' = "unset"
                /\ framepc' = "idle"
                /\ sync' = NoSync
                /\ UNCHANGED <<proxy_tex, pltexLive, nextTex, texLayout,
                               frameBase, fault, deadUse>>
           ELSE IF ctx_priv = NULL \/ gpu = NULL THEN      \* :130, no pl_gpu
                /\ fault' = "wrap_fbo"
                /\ deadUse' = TRUE
                /\ wrapRet' = "none"
                /\ wrapEnv' = NotCalled
                /\ out' = "unset"
                /\ framepc' = "idle"
                /\ sync' = NoSync
                /\ UNCHANGED <<proxy_tex, pltexLive, nextTex, texLayout, frameBase>>
           ELSE IF gpu \notin live THEN                    \* :130, destroyed pl_gpu
                /\ deadUse' = TRUE
                /\ \E ub \in DanglingOutcomes :
                    IF ub = "crash" THEN
                        /\ fault' = "wrap_fbo"
                        /\ wrapRet' = "none"
                        /\ wrapEnv' = NotCalled
                        /\ out' = "unset"
                        /\ framepc' = "idle"
                        /\ sync' = NoSync
                        /\ UNCHANGED <<proxy_tex, pltexLive, nextTex, texLayout,
                                       frameBase>>
                    ELSE
                        /\ UNCHANGED fault
                        /\ \E s \in SyncBlocks, raWrapOk, slotWritten \in BOOLEAN :
                            WrapTail(f, s, NewTex(ub = "works"), raWrapOk, slotWritten)
           ELSE /\ UNCHANGED <<fault, deadUse>>
                /\ \E s \in SyncBlocks, wrapOk, raWrapOk, slotWritten \in BOOLEAN :
                    WrapTail(f, s, NewTex(wrapOk), raWrapOk, slotWritten)
    /\ waitSemVal' = 0          \* the block names this submission's semaphores
    /\ UNCHANGED <<progVars_noproxy, initVars, objVars, nDestroy, gpuVars,
                   sigSemVal, callerOwned>>

\* ------------------------------------------------- rendering and the GPU
\* The renderer draws into the bound target between wrap_fbo and done_frame:
\* it submits n commands to the queue and leaves the image in the layout its
\* last pass used. Nothing in wrap_fbo or done_frame makes the submission
\* wait for the caller's wait semaphore.
Render(n, l) ==
    /\ Running
    /\ framepc = "bound"
    /\ framepc' = "rendered"
    /\ submitted' = submitted + n
    /\ texLayout' = l
    /\ UNCHANGED <<progVars, initVars, objVars, nDestroy, fault, deadUse, fbo,
                   sync, wrapEnv, wrapRet, out, nWrap, pltexLive, nextTex,
                   frameBase, completed, semVars, callerOwned>>

\* The queue retires the next submitted command.
GpuExecute ==
    /\ Running
    /\ completed < submitted
    /\ completed' = completed + 1
    /\ UNCHANGED <<progVars, initVars, objVars, nDestroy, fault, deadUse,
                   frameVars, submitted, semVars, callerOwned>>

\* The caller signals the semaphore it passed as wait_semaphore of the frame
\* in flight, up to the value it asked the renderer to wait for.
UserSignalWait ==
    /\ Running
    /\ framepc \in {"bound", "rendered", "finishing"}
    /\ sync.wait_semaphore
    /\ waitSemVal < sync.wait_value
    /\ waitSemVal' = waitSemVal + 1
    /\ UNCHANGED <<progVars, initVars, objVars, nDestroy, fault, deadUse,
                   frameVars, gpuVars, sigSemVal, callerOwned>>

\* -------------------------------------------------------------- done_frame
\* libmpv_vk.c:160: pl_gpu_finish returns once every submitted command retired
GpuFinishDoneNoWait(s, c) == TRUE

GpuFinishDone(s, c) == c >= s

\* done_frame (libmpv_vk.c:155-161) on a live pl_gpu, up to the point where
\* pl_gpu_finish blocks the calling thread. The SYNC block is not consulted.
done_frame_call ==
    /\ Running
    /\ framepc = "rendered"
    /\ gpu \in live
    /\ framepc' = "finishing"
    /\ UNCHANGED <<progVars, initVars, objVars, nDestroy, fault, deadUse, fbo,
                   sync, wrapEnv, wrapRet, out, nWrap, pltexLive, nextTex,
                   texLayout, frameBase, gpuVars, semVars, callerOwned>>

\* done_frame returns when pl_gpu_finish does.
done_frame_return ==
    /\ Running
    /\ framepc = "finishing"
    /\ GpuFinishDone(submitted, completed)
    /\ framepc' = "done"
    /\ UNCHANGED <<progVars, initVars, objVars, nDestroy, fault, deadUse, fbo,
                   sync, wrapEnv, wrapRet, out, nWrap, pltexLive, nextTex,
                   texLayout, frameBase, gpuVars, semVars, callerOwned>>

\* done_frame called on a context that holds no usable pl_gpu (init failed,
\* or destroy already ran): pl_gpu_finish gets a NULL or destroyed pl_gpu.
done_frame_dead(ub) ==
    /\ Running
    /\ initpc = "returned"
    /\ framepc \in {"idle", "done"}
    /\ gpu \notin live
    /\ deadUse' = TRUE
    /\ fault' = IF gpu = NULL \/ ub = "crash" THEN "done_frame" ELSE "no"
    /\ UNCHANGED <<progVars, initVars, objVars, nDestroy, frameVars, gpuVars,
                   semVars, callerOwned>>

\* ----------------------------------------------------------- specification
Init ==
    /\ ctx_priv = NULL /\ pllog = NULL /\ vulkan = NULL /\ gpu = NULL
    /\ ra_ctx = NULL /\ ra = NULL /\ ctx_ra_ctx = NULL /\ proxy_tex = 0
    /\ initpc = "none" /\ initRet = "none" /\ vk_params = NoInitParams
    /\ live = {} /\ built = [o \in Objects |-> 0] /\ tried = <<>>
    /\ relOrder = <<>>
    /\ nDestroy = 0 /\ fault = "no" /\ deadUse = FALSE
    /\ fbo = NoFbo /\ sync = NoSync /\ wrapEnv = NotCalled /\ wrapRet = "none"
    /\ out = "unset" /\ nWrap = 0 /\ pltexLive = {} /\ nextTex = 0
    /\ texLayout = "UNDEFINED" /\ framepc = "idle" /\ frameBase = 0
    /\ submitted = 0 /\ completed = 0
    /\ waitSemVal = 0 /\ sigSemVal = 0
    /\ callerOwned = CallerHandles

Next ==
    \/ \E vp \in InitParamBlocks, logOk, importOk, raOk \in BOOLEAN :
            init(vp, logOk, importOk, raOk)
    \/ wrap_fbo
    \/ \E n \in 1..MaxCmdsPerFrame, l \in RenderLayouts : Render(n, l)
    \/ GpuExecute
    \/ UserSignalWait
    \/ done_frame_call
    \/ done_frame_return
    \/ \E ub \in DanglingOutcomes : done_frame_dead(ub)
    \/ destroy

Spec == Init /\ [][Next]_vars

\* ------------------------------------------------------------------ claims
AllFour(vp) ==
    vp.instance /\ vp.physical_device /\ vp.device /\ vp.graphics_queue

NothingBuilt == \A o \in Objects : built[o] = 0

\* C1: when init was given a parameter block in which instance, physical
\* device, device or graphics queue is missing, it returned InvalidParameter,
\* no sub-object (log, pl_vulkan, ra_ctx/ra) was constructed, and destroy calls
\* made afterwards have released nothing.
C1_MissingHandleRejected ==
    (initpc = "returned" /\ vk_params.present /\ ~AllFour(vk_params)) =>
        /\ initRet = MPV_ERROR_INVALID_PARAMETER
        /\ NothingBuilt
        /\ live = {}
        /\ pllog = NULL /\ vulkan = NULL /\ gpu = NULL
        /\ ra_ctx = NULL /\ ra = NULL /\ ctx_ra_ctx = NULL
        /\ relOrder = <<>>
        /\ fault # "destroy"

C1_Witness ==
    /\ initpc = "returned"
    /\ vk_params.present /\ vk_params.instance /\ vk_params.physical_device
    /\ vk_params.device /\ ~vk_params.graphics_queue
    /\ initRet = MPV_ERROR_INVALID_PARAMETER
    /\ nDestroy >= 1

\* C2 as stated: with all four handles present and a successful device import
\* (the pl_vulkan was built), init succeeded, published exactly one ra handle,
\* and no later destroy crashed.
C2_ImportSuccessImpliesInitSuccess ==
    (initpc = "returned" /\ vk_params.present /\ AllFour(vk_params)
        /\ built["vk"] = 1) =>
        /\ initRet = MPV_OK
        /\ built["ra"] = 1
        /\ ctx_ra_ctx = "ra_ctx"
        /\ fault # "destroy"

\* C2 amended: with all four handles present, a successful device import and
\* a successful ra_create_pl, init succeeded, built exactly one ra and
\* published its ra_ctx, and no later destroy crashed.
C2_FullSuccessImpliesInitSuccess ==
    (initpc = "returned" /\ vk_params.present /\ AllFour(vk_params)
        /\ built["vk"] = 1 /\ built["ra"] = 1) =>
        /\ initRet = MPV_OK
        /\ ctx_ra_ctx = "ra_ctx"
        /\ ra_ctx = "ra_ctx"
        /\ (nDestroy = 0 => ra = "ra" /\ "ra" \in live)
        /\ fault # "destroy"

C2_Witness ==
    /\ initpc = "returned" /\ AllFour(vk_params)
    /\ initRet = MPV_OK /\ built["ra"] = 1
    /\ nDestroy >= 1 /\ fault = "no"

SyncSupplied(s) == s.present /\ (s.wait_semaphore \/ s.signal_semaphore)

\* C3: the calling thread is never blocked in done_frame's completion wait,
\* with GPU work still outstanding, for a frame whose SYNC block supplies a
\* wait or a signal semaphore.
C3_NoBlockingWithSync ==
    ~(framepc = "finishing" /\ completed < submitted /\ SyncSupplied(sync))

\* C4: when done_frame has returned for a frame with no sync parameters (no
\* SYNC block, or one with both semaphores null), the GPU completion counter
\* has reached the value submitted for the frame.
C4_FinishWaitsWithoutSync ==
    (framepc = "done" /\ ~SyncSupplied(sync)) => completed >= submitted

C4_Witness ==
    /\ framepc = "done" /\ ~sync.present
    /\ submitted > frameBase /\ completed = submitted

\* C5: a frame's signal semaphore has the requested value once the frame is
\* finished, and does not have it while commands of the frame are outstanding.
C5_SignalSemaphoreSignaled ==
    /\ (framepc = "done" /\ sync.signal_semaphore)
            => sigSemVal >= sync.signal_value
    /\ (framepc \in {"rendered", "finishing"} /\ sync.signal_semaphore
            /\ sigSemVal >= sync.signal_value) => completed >= submitted

\* C6: no command of a frame with a wait semaphore has executed while that
\* semaphore is below the wait value.
C6_WaitSemaphoreHonoured ==
    (framepc \in {"rendered", "finishing", "done"} /\ sync.wait_semaphore
        /\ completed > frameBase) => waitSemVal >= sync.wait_value

\* C7: once the frame is finished, the wrapped image is in the target layout
\* the FBO block asked for.
C7_TargetLayoutReached ==
    framepc = "done" => texLayout = fbo.target_layout

\* C8: a wrap_fbo call given a target block with a null image, zero width or
\* zero height returns InvalidParameter, creates no pl_tex, leaves the proxy
\* slot as it was and writes nothing to *out.
C8_InvalidTargetRejected ==
    [][ (nWrap' = nWrap + 1 /\ fbo'.present
            /\ (fbo'.image = 0 \/ fbo'.width = 0 \/ fbo'.height = 0)) =>
        /\ wrapRet' = MPV_ERROR_INVALID_PARAMETER
        /\ nextTex' = nextTex
        /\ pltexLive' = pltexLive
        /\ proxy_tex' = proxy_tex
        /\ out' = "unset"
        /\ framepc' = "idle" ]_vars

C8_Witness ==
    /\ initRet = MPV_OK /\ proxy_tex # 0
    /\ fbo.present /\ fbo.image # 0 /\ fbo.width # 0 /\ fbo.height = 0
    /\ wrapRet = MPV_ERROR_INVALID_PARAMETER /\ out = "unset"

ValidTarget(f) == f.present /\ f.image # 0 /\ f.width > 0 /\ f.height > 0

\* The context was initialised successfully and has not been destroyed.
Initialised == initRet = MPV_OK /\ nDestroy = 0

\* C9 as stated: every wrap_fbo call with a valid target block on an
\* initialised context succeeds and writes the texture handle.
C9_ValidTargetAlwaysBinds ==
    [][ (nWrap' = nWrap + 1 /\ ValidTarget(fbo') /\ Initialised) =>
        (wrapRet' = MPV_OK /\ out' = "proxy_tex") ]_vars

\* C9 amended: a wrap_fbo call with a valid target block on an initialised
\* context succeeds and writes the handle of the proxy slot when pl_vulkan_wrap
\* and mppl_wrap_tex both succeed, and otherwise returns Generic and writes no
\* handle; it never returns InvalidParameter.
C9_ValidTargetBindsWhenWrapsSucceed ==
    [][ (nWrap' = nWrap + 1 /\ ValidTarget(fbo') /\ Initialised) =>
        IF wrapEnv'.wrap = "ok" /\ wrapEnv'.raWrap = "ok"
        THEN /\ wrapRet' = MPV_OK
             /\ out' = "proxy_tex"
             /\ proxy_tex' = nextTex' /\ proxy_tex' \in pltexLive'
             /\ framepc' = "bound"
        ELSE /\ wrapRet' = MPV_ERROR_GENERIC
             /\ out' = "unset" ]_vars

C9_Witness ==
    /\ Initialised /\ ValidTarget(fbo)
    /\ wrapEnv.wrap = "ok" /\ wrapEnv.raWrap = "ok"
    /\ wrapRet = MPV_OK /\ out = "proxy_tex" /\ framepc = "bound"

\* C10: no sub-object is released more than once over any number of destroy
\* calls, and a destroy call that is not the first releases nothing and
\* changes nothing of the context.
C10_DestroyIdempotent ==
    [][ nDestroy' = nDestroy + 1 =>
        /\ \A o \in Objects : Released(o)' <= 1
        /\ fault' = "no"
        /\ nDestroy >= 1 =>
            /\ relOrder' = relOrder
            /\ live' = live
            /\ progVars' = progVars ]_vars

C10_Witness ==
    /\ initRet = MPV_OK /\ nDestroy >= 2
    /\ Released("ra") = 1 /\ Released("vk") = 1 /\ Released("log") = 1

\* init has returned an error (or crashed) instead of succeeding.
InitFailed == initpc = "returned" /\ initRet # MPV_OK

\* The sub-objects init constructed.
Built == {o \in Objects : built[o] >= 1}

\* The sub-objects destroy has released.
ReleasedSet == {relOrder[i] : i \in DOMAIN relOrder}

\* C11: after init failed at any of its early returns, no destroy call has
\* crashed, and every release destroy made was of a sub-object that init had
\* constructed, at most once each: never of a NULL log, pl_vulkan or ra.
C11_DestroyAfterFailedInitSafe ==
    InitFailed =>
        /\ fault # "destroy"
        /\ \A i \in DOMAIN relOrder :
                relOrder[i] \in Objects /\ built[relOrder[i]] >= 1
        /\ \A o \in Objects : Released(o) <= built[o]

C11_Witness ==
    /\ vk_params.present /\ AllFour(vk_params)
    /\ initRet = MPV_ERROR_UNSUPPORTED
    /\ ra_ctx = "ra_ctx" /\ built["vk"] = 1 /\ built["ra"] = 0
    /\ nDestroy >= 1 /\ relOrder = <<"vk", "log">>

\* C12 as stated: a failed init has returned with no sub-object allocated.
C12_FailedInitLeavesNothing ==
    InitFailed => live = {}

\* C12 amended: a failed init attempts no later step and releases nothing
\* itself: the sub-objects it built, and only those, stay allocated and owned
\* by the context until the first destroy, which releases exactly them.
C12_FailedInitKeepsBuiltForDestroy ==
    InitFailed =>
        IF nDestroy = 0
        THEN live = Built /\ relOrder = <<>>
        ELSE live = {} /\ ReleasedSet = Built

C12_Witness ==
    /\ initRet = MPV_ERROR_UNSUPPORTED /\ built["vk"] = 0
    /\ tried = <<"log", "vk">>
    /\ nDestroy = 0 /\ live = {"log"} /\ pllog = "log"

\* The place of a sub-object in init's construction order.
Pos(o) == CHOOSE k \in DOMAIN tried : tried[k] = o

\* C13: destroy releases in the reverse of the construction order: of two
\* released sub-objects the one released first was constructed last, so the ra
\* goes before the pl_vulkan and the pl_vulkan before the log.
C13_ReleaseInReverseOrder ==
    \A i, j \in DOMAIN relOrder :
        i < j =>
            /\ relOrder[i] \in ReleasedSet \cap Built
            /\ relOrder[j] \in ReleasedSet \cap Built
            /\ Pos(relOrder[i]) > Pos(relOrder[j])

C13_Witness ==
    /\ initRet = MPV_OK /\ tried = <<"log", "vk", "ra">>
    /\ relOrder = <<"ra", "vk", "log">>

\* C14: with all four handles present, init returned Unsupported when the
\* device import failed and when the import succeeded but ra_create_pl failed.
C14_ConstructionFailureIsUnsupported ==
    (initpc = "returned" /\ vk_params.present /\ AllFour(vk_params)
        /\ fault # "init") =>
        /\ (Len(tried) >= 2 /\ built["vk"] = 0)
                => initRet = MPV_ERROR_UNSUPPORTED
        /\ (Len(tried) = 3 /\ built["vk"] = 1 /\ built["ra"] = 0)
                => initRet = MPV_ERROR_UNSUPPORTED

C14_Witness ==
    /\ vk_params.present /\ AllFour(vk_params)
    /\ tried = <<"log", "vk">> /\ built["log"] = 1 /\ built["vk"] = 0
    /\ initRet = MPV_ERROR_UNSUPPORTED

ConstructionOrder == <<"log", "vk", "ra">>

\* C15: init attempts its constructions in the order log, device import, ra,
\* and attempts a step only when the step before it succeeded; the pl_gpu is
\* taken only from a successfully imported pl_vulkan.
C15_ConstructionInOrder ==
    /\ Len(tried) <= 3
    /\ \A i \in DOMAIN tried : tried[i] = ConstructionOrder[i]
    /\ \A i \in DOMAIN tried : i > 1 => built[tried[i - 1]] = 1
    /\ \A o \in Built : \E i \in DOMAIN tried : tried[i] = o
    /\ gpu # NULL => built["vk"] = 1

C15_Witness ==
    /\ vk_params.present /\ AllFour(vk_params)
    /\ initRet = MPV_ERROR_GENERIC /\ tried = <<"log">> /\ Built = {}

\* C16: ctx->ra_ctx is set exactly when init succeeded, and it then refers to
\* an ra_ctx whose ra was constructed (and is non-NULL until destroy).
C16_PublishedIffInitSucceeded ==
    initpc = "returned" =>
        /\ (ctx_ra_ctx # NULL) <=> (initRet = MPV_OK)
        /\ initRet = MPV_OK =>
            /\ ctx_ra_ctx = ra_ctx /\ built["ra"] = 1
            /\ nDestroy = 0 => ra = "ra"

C16_Witness ==
    /\ initRet = MPV_OK /\ ctx_ra_ctx = "ra_ctx" /\ ra = "ra" /\ nDestroy = 0

\* C17: a wrap_fbo call in which pl_vulkan_wrap succeeds and mppl_wrap_tex
\* fails returns Generic with the pl_tex it created destroyed again (the live
\* wrapped textures are those from before the call) and nothing written to *out.
C17_PartialWrapFailureReleasesTex ==
    [][ (nWrap' = nWrap + 1 /\ wrapEnv'.wrap = "ok"
            /\ wrapEnv'.raWrap = "failed") =>
        /\ wrapRet' = MPV_ERROR_GENERIC
        /\ nextTex' = nextTex + 1
        /\ nextTex' \notin pltexLive'
        /\ pltexLive' = pltexLive
        /\ out' = "unset" ]_vars

C17_Witness ==
    /\ Initialised /\ ValidTarget(fbo)
    /\ wrapEnv.wrap = "ok" /\ wrapEnv.raWrap = "failed"
    /\ wrapRet = MPV_ERROR_GENERIC /\ nextTex = 2 /\ pltexLive = {1}

C19_SingleLiveWrappedTexture ==
    ~deadUse =>
        /\ Cardinality(pltexLive) <= 1
        /\ "vk" \in ReleasedSet => pltexLive = {}

\* C20: p->gpu is NULL or the pl_gpu of the live pl_vulkan that p->vulkan
\* holds, and no wrap_fbo or done_frame call has used a NULL or destroyed pl_gpu.
C20_GpuHandleNullOrLive ==
    /\ gpu = NULL \/ (gpu \in live /\ vulkan = gpu)
    /\ ~deadUse

====
